---- MODULE Spec2Model ----
(***************************************************************************)
(* Model of felt/node/background_worker.py: the coroutine task() run by    *)
(* main().  task() reads the chain id and the contracts from the ledger    *)
(* node, prints the activation fee, and then enters the loop               *)
(*     while True:                                                         *)
(*         async with websockets.connect(URL) as websocket:                *)
(*             try:                                                        *)
(*                 while True:                                             *)
(*                     cmd = await producer()                              *)
(*                     await websocket.send(cmd)                           *)
(*                     rec = await websocket.recv()                        *)
(*             except websockets.ConnectionClosed:                         *)
(*                 continue                                                *)
(* pc holds the source line the coroutine is about to execute.  The ledger *)
(* node and the coordination server are the environment: they go up and    *)
(* down and the server may close an accepted connection at any time.       *)
(***************************************************************************)
EXTENDS Naturals, Sequences, FiniteSets, TLC

\* Bounds of the environment.
MaxFlips == 2      \* availability changes of the ledger node and the server
MaxChainId == 2    \* chain ids the ledger node may report: 1..MaxChainId
MaxFee == 1        \* activation fees the contract may hold: 0..MaxFee

ChainIds == 1..MaxChainId
Fees == 0..MaxFee

VARIABLES
    pc,          \* line of task() about to be executed, or "done"
    exc,         \* the exception in flight or that ended task(); "none"
    excLine,     \* the line that raised exc; 0 when none
    chain_id,    \* value printed at line 20; 0 before
    contracts,   \* the dict built at lines 21-23: name -> [obj]
    printed,     \* standard output: the print calls of lines 20, 25, 35
    ledgerLog,   \* requests made to the ledger node, in order
    connectLog,  \* outcome of every websockets.connect(URL), in order
    sessions,    \* every websocket ever opened, in order of opening
    websocket,   \* index in sessions bound by `as websocket`; 0 when none
    cmd,         \* the local cmd of line 31; "none" before
    ledgerUp,    \* environment: the node at ETH_NODE answers
    chainOnNode, \* environment: the chain id the node reports
    feeOnChain,  \* environment: activationFee stored in ContractManager
    registry,    \* environment: chain id -> contract names deployed there
    serverUp,    \* environment: the server at URL accepts connections
    flips        \* availability changes made so far

vars == <<pc, exc, excLine, chain_id, contracts, printed, ledgerLog,
          connectLog, sessions, websocket, cmd, ledgerUp, chainOnNode,
          feeOnChain, registry, serverUp, flips>>

workerVars == <<pc, exc, excLine, chain_id, contracts, printed, ledgerLog,
                connectLog, sessions, websocket, cmd>>
envVars == <<ledgerUp, chainOnNode, feeOnChain, registry, serverUp, flips>>

\* Lines of task().
StartupLines == {20, 21, 22, 25}
BlockLines == {31, 33, 37, 38}
Lines == StartupLines \cup {28} \cup BlockLines

\* Values of pc: "L20" is line 20.
StartupPcs == {"L20", "L21", "L22", "L25"}
BlockPcs == {"L31", "L33", "L37", "L38"}
Pcs == StartupPcs \cup {"L28"} \cup BlockPcs \cup {"done"}

NoContracts == [k \in {} |-> [obj |-> FALSE]]

\* What load_contracts may find for a chain id: no entry at all, or the
\* deployed contract names (with or without ContractManager).
NoEntry == {}
Deployments == {NoEntry, {"FELToken"}, {"ContractManager", "FELToken"}}

\* async def producer(federated_contract): one positional parameter.
producer_params == 1
\* cmd = await producer(): called with no argument.
producer_args == 0

\* Python binds the arguments before the coroutine object is created: a
\* call with a missing positional argument raises TypeError at the call,
\* otherwise the coroutine sleeps 3 seconds and returns "p".
producer ==
    IF producer_args = producer_params
    THEN [raises |-> FALSE, value |-> "p", exc |-> "none"]
    ELSE [raises |-> TRUE, value |-> "none", exc |-> "TypeError"]

\* Variant of Handled: a bare except clause, which handles everything.
Handled_any(e) == TRUE

\* except websockets.ConnectionClosed: the only exception class handled.
Handled(e) == e = "ConnectionClosed"

OpenSessions == {i \in DOMAIN sessions : sessions[i].state = "OPEN"}

TypeOK ==
    /\ pc \in Pcs
    /\ exc \in {"none", "ConnectionError", "LookupError", "KeyError",
                "OSError", "TypeError", "ConnectionClosed"}
    /\ excLine \in Lines \cup {0}
    /\ chain_id \in ChainIds \cup {0}
    /\ DOMAIN contracts \in Deployments
    /\ Len(printed) <= 2
    /\ Len(ledgerLog) <= 3
    /\ websocket \in 0..Len(sessions)
    /\ cmd \in {"none", "p"}
    /\ ledgerUp \in BOOLEAN /\ serverUp \in BOOLEAN
    /\ chainOnNode \in ChainIds /\ feeOnChain \in Fees
    /\ registry \in [ChainIds -> Deployments]
    /\ flips \in 0..MaxFlips

Init ==
    /\ pc = "L20"
    /\ exc = "none"
    /\ excLine = 0
    /\ chain_id = 0
    /\ contracts = NoContracts
    /\ printed = <<>>
    /\ ledgerLog = <<>>
    /\ connectLog = <<>>
    /\ sessions = <<>>
    /\ websocket = 0
    /\ cmd = "none"
    /\ ledgerUp \in BOOLEAN
    /\ chainOnNode \in ChainIds
    /\ feeOnChain \in Fees
    /\ registry \in [ChainIds -> Deployments]
    /\ serverUp \in BOOLEAN
    /\ flips = 0

\* Variant of RaiseOutsideTry: the exception is swallowed and the loop of
\* line 27 is entered.
RaiseOutsideTry_swallowed(e, line) ==
    /\ exc' = e
    /\ excLine' = line
    /\ pc' = "L28"

\* An exception raised outside the try statement (lines 19-28) has no
\* handler in task(): it leaves the while loop and task(), and
\* asyncio.run(task()) re-raises it in main().
RaiseOutsideTry(e, line) ==
    /\ exc' = e
    /\ excLine' = line
    /\ pc' = "done"

\* Line 20: print("Chain id", w3.eth.chain_id).
ChainId ==
    /\ pc = "L20"
    /\ ledgerLog' = Append(ledgerLog, [line |-> 20, op |-> "eth_chainId", ok |-> ledgerUp])
    /\ IF ledgerUp
       THEN /\ chain_id' = chainOnNode
            /\ printed' = Append(printed, <<"Chain id", chainOnNode>>)
            /\ pc' = "L21"
            /\ UNCHANGED <<exc, excLine>>
       ELSE /\ RaiseOutsideTry("ConnectionError", 20)
            /\ UNCHANGED <<chain_id, printed>>
    /\ UNCHANGED <<contracts, connectLog, sessions, websocket, cmd>>
    /\ UNCHANGED envVars

\* load_contracts(chain_id) of felt.node.utils.contracts: the lookup of the
\* contract registry by chain id; it fails when the chain has no entry.
load_contracts(chain) ==
    IF registry[chain] = NoEntry
    THEN [raises |-> TRUE, value |-> NoContracts]
    ELSE [raises |-> FALSE, value |-> [k \in registry[chain] |-> [obj |-> FALSE]]]

\* Line 21: contracts = load_contracts(w3.eth.chain_id); the chain id is
\* queried from the node a second time.
LoadContracts ==
    /\ pc = "L21"
    /\ ledgerLog' = Append(ledgerLog, [line |-> 21, op |-> "eth_chainId", ok |-> ledgerUp])
    /\ IF ~ledgerUp
       THEN /\ RaiseOutsideTry("ConnectionError", 21)
            /\ UNCHANGED contracts
       ELSE IF load_contracts(chainOnNode).raises
       THEN /\ RaiseOutsideTry("LookupError", 21)
            /\ UNCHANGED contracts
       ELSE /\ contracts' = load_contracts(chainOnNode).value
            /\ pc' = "L22"
            /\ UNCHANGED <<exc, excLine>>
    /\ UNCHANGED <<chain_id, printed, connectLog, sessions, websocket, cmd>>
    /\ UNCHANGED envVars

\* Lines 22-23: bind every contract; w3.eth.contract makes no request.
BindContracts ==
    /\ pc = "L22"
    /\ contracts' = [k \in DOMAIN contracts |-> [obj |-> TRUE]]
    /\ pc' = "L25"
    /\ UNCHANGED <<exc, excLine, chain_id, printed, ledgerLog, connectLog,
                   sessions, websocket, cmd>>
    /\ UNCHANGED envVars

\* Line 25: print("Fee:", contracts["ContractManager"]["obj"]
\*                 .functions.activationFee().call()).
ActivationFee ==
    /\ pc = "L25"
    /\ IF "ContractManager" \notin DOMAIN contracts
       THEN /\ RaiseOutsideTry("KeyError", 25)
            /\ UNCHANGED <<printed, ledgerLog>>
       ELSE /\ ledgerLog' = Append(ledgerLog, [line |-> 25, op |-> "eth_call", ok |-> ledgerUp])
            /\ IF ledgerUp
               THEN /\ printed' = Append(printed, <<"Fee:", feeOnChain>>)
                    /\ pc' = "L28"
                    /\ UNCHANGED <<exc, excLine>>
               ELSE /\ RaiseOutsideTry("ConnectionError", 25)
                    /\ UNCHANGED printed
    /\ UNCHANGED <<chain_id, contracts, connectLog, sessions, websocket, cmd>>
    /\ UNCHANGED envVars

\* Variant of Connect: the activation fee is read again from the ledger
\* node before every connect attempt.
Connect_rereadsFee ==
    /\ pc = "L28"
    /\ ledgerLog' = Append(ledgerLog, [line |-> 28, op |-> "eth_call", ok |-> ledgerUp])
    /\ connectLog' = Append(connectLog, serverUp)
    /\ IF serverUp
       THEN /\ sessions' = Append(sessions, [state |-> "OPEN", closedBy |-> "none",
                                             sent |-> 0, received |-> 0])
            /\ websocket' = Len(sessions) + 1
            /\ pc' = "L31"
            /\ UNCHANGED <<exc, excLine>>
       ELSE /\ RaiseOutsideTry("OSError", 28)
            /\ UNCHANGED <<sessions, websocket>>
    /\ UNCHANGED <<chain_id, contracts, printed, cmd>>
    /\ UNCHANGED envVars

\* Line 28, entry: async with websockets.connect(URL) as websocket.  The
\* opening handshake either yields an open websocket or raises (OSError
\* when the connection is refused); the with statement is outside the try.
Connect ==
    /\ pc = "L28"
    /\ connectLog' = Append(connectLog, serverUp)
    /\ IF serverUp
       THEN /\ sessions' = Append(sessions, [state |-> "OPEN", closedBy |-> "none",
                                             sent |-> 0, received |-> 0])
            /\ websocket' = Len(sessions) + 1
            /\ pc' = "L31"
            /\ UNCHANGED <<exc, excLine>>
       ELSE /\ RaiseOutsideTry("OSError", 28)
            /\ UNCHANGED <<sessions, websocket>>
    /\ UNCHANGED <<chain_id, contracts, printed, ledgerLog, cmd>>
    /\ UNCHANGED envVars

\* Variant of ProducerCall: the failing call also drops the contract
\* handles it was meant to receive.
ProducerCall_dropsContracts ==
    /\ pc = "L31"
    /\ contracts' = NoContracts
    /\ IF producer.raises
       THEN /\ exc' = producer.exc
            /\ excLine' = 31
            /\ pc' = "L37"
            /\ UNCHANGED cmd
       ELSE /\ cmd' = producer.value
            /\ pc' = "L33"
            /\ UNCHANGED <<exc, excLine>>
    /\ UNCHANGED <<chain_id, printed, ledgerLog, connectLog,
                   sessions, websocket>>
    /\ UNCHANGED envVars

\* Line 31: cmd = await producer().  An exception raised in the try body
\* goes to the except clause of line 37.  (Lines 33-35, the send, the recv
\* and the print, follow a call that returns.)
ProducerCall ==
    /\ pc = "L31"
    /\ IF producer.raises
       THEN /\ exc' = producer.exc
            /\ excLine' = 31
            /\ pc' = "L37"
            /\ UNCHANGED cmd
       ELSE /\ cmd' = producer.value
            /\ pc' = "L33"
            /\ UNCHANGED <<exc, excLine>>
    /\ UNCHANGED <<chain_id, contracts, printed, ledgerLog, connectLog,
                   sessions, websocket>>
    /\ UNCHANGED envVars

\* Line 37: except websockets.ConnectionClosed.  A handled exception is
\* cleared and line 38 (continue) follows; any other stays in flight.
\* Either way control leaves the with block next.
ExceptClause ==
    /\ pc = "L37"
    /\ IF Handled(exc)
       THEN exc' = "none" /\ excLine' = 0
       ELSE UNCHANGED <<exc, excLine>>
    /\ pc' = "L38"
    /\ UNCHANGED <<chain_id, contracts, printed, ledgerLog, connectLog,
                   sessions, websocket, cmd>>
    /\ UNCHANGED envVars

\* Variant of AExit: the websocket is bound without a context manager and
\* is left as it is when control leaves the block.
AExit_noClose ==
    /\ pc = "L38"
    /\ websocket' = 0
    /\ pc' = IF exc = "none" THEN "L28" ELSE "done"
    /\ UNCHANGED <<exc, excLine, chain_id, contracts, printed, ledgerLog,
                   connectLog, sessions, cmd>>
    /\ UNCHANGED envVars

\* Variant of AExit: the websocket is closed in the handler of
\* ConnectionClosed only, so an exception in flight leaves it as it is.
AExit_closeOnContinueOnly ==
    /\ pc = "L38"
    /\ sessions' = [sessions EXCEPT ![websocket] =
                      IF @.state = "OPEN" /\ exc = "none"
                      THEN [@ EXCEPT !.state = "CLOSED", !.closedBy = "worker"]
                      ELSE @]
    /\ websocket' = 0
    /\ pc' = IF exc = "none" THEN "L28" ELSE "done"
    /\ UNCHANGED <<exc, excLine, chain_id, contracts, printed, ledgerLog,
                   connectLog, cmd>>
    /\ UNCHANGED envVars

\* Line 28, exit: leaving the with block, by continue or by an exception,
\* runs __aexit__, which closes the websocket.  Then continue goes back to
\* line 28 of the outer loop, and an exception in flight ends task().
AExit ==
    /\ pc = "L38"
    /\ sessions' = [sessions EXCEPT ![websocket] =
                      IF @.state = "OPEN"
                      THEN [@ EXCEPT !.state = "CLOSED", !.closedBy = "worker"]
                      ELSE @]
    /\ websocket' = 0
    /\ pc' = IF exc = "none" THEN "L28" ELSE "done"
    /\ UNCHANGED <<exc, excLine, chain_id, contracts, printed, ledgerLog,
                   connectLog, cmd>>
    /\ UNCHANGED envVars

Worker ==
    \/ ChainId
    \/ LoadContracts
    \/ BindContracts
    \/ ActivationFee
    \/ Connect
    \/ ProducerCall
    \/ ExceptClause
    \/ AExit

\* Environment: the ledger node becomes reachable or unreachable.
LedgerFlip ==
    /\ flips < MaxFlips
    /\ flips' = flips + 1
    /\ ledgerUp' = ~ledgerUp
    /\ UNCHANGED <<chainOnNode, feeOnChain, registry, serverUp>>
    /\ UNCHANGED workerVars

\* Environment: the coordination server starts or stops accepting.
ServerFlip ==
    /\ flips < MaxFlips
    /\ flips' = flips + 1
    /\ serverUp' = ~serverUp
    /\ UNCHANGED <<ledgerUp, chainOnNode, feeOnChain, registry>>
    /\ UNCHANGED workerVars

\* Environment: the server closes a connection it had accepted.
ServerClose ==
    /\ \E i \in OpenSessions :
         sessions' = [sessions EXCEPT ![i] =
                        [@ EXCEPT !.state = "CLOSED", !.closedBy = "peer"]]
    /\ UNCHANGED <<pc, exc, excLine, chain_id, contracts, printed, ledgerLog,
                   connectLog, websocket, cmd>>
    /\ UNCHANGED envVars

Next ==
    \/ Worker
    \/ LedgerFlip
    \/ ServerFlip
    \/ ServerClose

Spec == Init /\ [][Next]_vars

\* The event loop runs the coroutine whenever it can take a step.
FairSpec == Spec /\ WF_vars(Worker)

(***************************************************************************)
(* Properties.                                                             *)
(***************************************************************************)

\* The startup of lines 19-25 has completed: both prints were made.
StartupSucceeded == Len(printed) = 2

\* The Sessions on which the worker has sent a frame.
SentOn == {i \in DOMAIN sessions : sessions[i].sent > 0}

\* The Sessions the server has closed.
ClosedByPeer == {i \in DOMAIN sessions : sessions[i].closedBy = "peer"}

\* C1: once the startup ledger reads have succeeded, task() never
\* terminates, whatever the coordination server does.
C1_NeverTerminates == StartupSucceeded => pc # "done"

\* C2: when the current Session fails (here: the server closes it), the
\* worker leaves the exchange loop, the Session is closed and a new connect
\* attempt is eventually made; the process does not crash.
C2_ReconnectAfterClose ==
    (websocket # 0 /\ sessions[websocket].closedBy = "peer")
        ~> (pc = "L28" /\ OpenSessions = {})

\* C3: after a failed attempt to open the connection the worker is still
\* in the reconnect loop, about to make another attempt, with no connection
\* handle open; task() has not terminated.
C3_RetryAfterRefusedConnect ==
    (connectLog # <<>> /\ ~connectLog[Len(connectLog)])
        => (pc = "L28" /\ OpenSessions = {})

\* C4: at most one Session is open in every reachable state; whenever the
\* worker is outside the with block (in particular before a connect
\* attempt) no Session is open, and the websocket in use inside the block
\* is the one opened by the latest connect, never an earlier one.
C4_AtMostOneSession ==
    /\ Cardinality(OpenSessions) <= 1
    /\ pc \notin BlockPcs => (OpenSessions = {} /\ websocket = 0)
    /\ pc \in BlockPcs => websocket = Len(sessions)
    /\ \A i \in DOMAIN sessions : i # Len(sessions) => sessions[i].state = "CLOSED"

\* C4 witness: a Session was opened and the worker closed it on leaving
\* the with block.
C4_Witness ==
    /\ Len(sessions) = 1
    /\ sessions[1].closedBy = "worker"
    /\ websocket = 0

\* C5: once the startup has succeeded and the server has accepted the
\* connection, the worker eventually sends a command, unless the server
\* closes the Session first (under weak fairness of the worker's steps).
C5_EventuallySends == (pc = "L31") ~> (SentOn # {} \/ ClosedByPeer # {})

\* C9: no call of producer made by the exchange loop raises: line 31 is
\* never the origin of an exception.
C9_ProducerNeverRaises == excLine # 31

\* C10: a failed startup ledger read (chain id query, contract lookup,
\* activationFee call) ends task() with that failure: it is the last
\* ledger request ever made, no ledger request is made twice from the same
\* line, and no connection to the coordination server is ever attempted.
C10_LedgerFailureIsFatal ==
    /\ \A i \in DOMAIN ledgerLog :
         ~ledgerLog[i].ok =>
            /\ i = Len(ledgerLog)
            /\ pc = "done"
            /\ exc = "ConnectionError"
            /\ excLine = ledgerLog[i].line
    /\ excLine \in StartupLines =>
            /\ pc = "done"
            /\ connectLog = <<>>
            /\ sessions = <<>>
    /\ \A i, j \in DOMAIN ledgerLog :
         ledgerLog[i].line = ledgerLog[j].line => i = j

\* C10 witness: task() has ended on a failed ledger request without any
\* connect attempt.
C10_Witness ==
    /\ pc = "done"
    /\ excLine \in StartupLines
    /\ ledgerLog # <<>>
    /\ ~ledgerLog[Len(ledgerLog)].ok
    /\ connectLog = <<>>

\* The ledger requests of one pass through lines 20-25, in order: the chain
\* id for the print of line 20, the chain id again for load_contracts at
\* line 21, and the activationFee call of line 25.
StartupReads == <<[line |-> 20, op |-> "eth_chainId"],
                  [line |-> 21, op |-> "eth_chainId"],
                  [line |-> 25, op |-> "eth_call"]>>

LedgerConfig == <<chain_id, contracts, printed>>

\* C15: once the startup has been left, no step of the worker (connect,
\* producer call, except clause, close of the websocket, end of task())
\* changes the LedgerConfig.
C15_LedgerConfigFrozen ==
    [][pc \notin StartupPcs => LedgerConfig' = LedgerConfig]_vars

\* C15 witness: the worker has connected, left the exchange loop and
\* closed the websocket, and the contracts are those bound at startup.
C15_Witness ==
    /\ StartupSucceeded
    /\ pc = "done"
    /\ excLine = 31
    /\ "ContractManager" \in DOMAIN contracts
    /\ \A k \in DOMAIN contracts : contracts[k].obj

\* C16: when task() has terminated, whatever exception ended it, no
\* Session is open; and the websocket the exchange loop works on has not
\* been closed by the worker, which unbinds it when it closes it.
C16_ClosedOnEveryExit ==
    /\ pc = "done" => (OpenSessions = {} /\ websocket = 0)
    /\ websocket # 0 => sessions[websocket].closedBy # "worker"

\* C16 witness: task() was ended by an exception other than
\* ConnectionClosed raised in the exchange loop, and the worker closed the
\* Session that was still open.
C16_Witness ==
    /\ pc = "done"
    /\ exc = "TypeError"
    /\ sessions # <<>>
    /\ sessions[Len(sessions)].closedBy = "worker"

====
